---- MODULE Spec2Model ----
(***************************************************************************)
(* IP reputation engine of ip_tracking: the geolocation resolver with its  *)
(* two cache tiers, the blocklist and its provisioning command, the        *)
(* request pipeline, and the periodic anomaly detector.                    *)
(*                                                                         *)
(* Time is counted in minutes.  An IP address in its textual form is       *)
(* modelled by the sequence of its numeric fields ("10.0.0.1" is           *)
(* <<10,0,0,1>>, "::1" is the eight groups <<0,0,0,0,0,0,0,1>>).           *)
(***************************************************************************)
EXTENDS Integers, Sequences, FiniteSets, TLC

VARIABLES now, cache, geoCache, lookups, blocked, requestLog, suspicious,
          config, det, hist, obs, jobs

vars == <<now, cache, geoCache, lookups, blocked, requestLog, suspicious,
          config, det, hist, obs, jobs>>

(***************************************************************************)
(* Bounds of the model.                                                    *)
(***************************************************************************)
MaxGeoTicks == 3
MaxCliTicks == 2
MaxDetTicks == 2
MaxLog == 3
MaxDetLog == 2
MaxCount == 2
MaxArgs == 2
MaxAuthLog == 5

(***************************************************************************)
(* Program constants.                                                      *)
(***************************************************************************)
CACHE_TIMEOUT_SECONDS == 86400
EXPIRY_HOURS == 24
CLEANUP_DAYS == 7
DEFAULT_HIGH_TRAFFIC_THRESHOLD == 100
DEFAULT_DETECTION_PERIOD_MINUTES == 60
AUTH_ATTEMPT_THRESHOLD == 5
DEFAULT_AUTO_BLOCK_THRESHOLD == 3
DEFAULT_BLOCK_DURATION_DAYS == 7

CacheTimeout == CACHE_TIMEOUT_SECONDS \div 60
ExpiryAge == EXPIRY_HOURS * 60
CleanupAge == CLEANUP_DAYS * 24 * 60

(***************************************************************************)
(* Addresses.                                                              *)
(***************************************************************************)
IpPublic == <<203, 0, 113, 5>>
IpPublic2 == <<198, 51, 100, 7>>
Ip10 == <<10, 0, 0, 1>>
Ip10b == <<10, 0, 0, 2>>
Ip172_16 == <<172, 16, 0, 1>>
Ip172_20 == <<172, 20, 0, 1>>
Ip192_168 == <<192, 168, 1, 1>>
IpLoopback == <<127, 0, 0, 1>>
IpLoopback6 == <<0, 0, 0, 0, 0, 0, 0, 1>>
IpBadOctet == <<256, 1, 1, 1>>
IpShort == <<1, 2, 3>>

AllIPs == {IpPublic, IpPublic2, Ip10, Ip10b, Ip172_16, Ip172_20, Ip192_168,
           IpLoopback, IpLoopback6, IpBadOctet, IpShort}

IsV4Text(ip) == Len(ip) # 8

ValidIP_FieldsUnchecked(ip) == Len(ip) \in {4, 8}

\* ipaddress.ip_address(text): accepts four decimal fields of at most 255, or
\* eight groups of at most 16 bits; raises ValueError otherwise.
ValidIP(ip) ==
    \/ Len(ip) = 4 /\ \A i \in 1..4 : ip[i] \in 0..255
    \/ Len(ip) = 8 /\ \A i \in 1..8 : ip[i] \in 0..65535

(***************************************************************************)
(* Geolocation attributes.                                                 *)
(***************************************************************************)
None == "None"

NullData == [country |-> None, country_name |-> None, city |-> None,
             region |-> None, latitude |-> None, longitude |-> None,
             timezone |-> None, isp |-> None]

\* What ip-api.com answers on success; two variants, as the answer for one
\* address may differ between two calls.
PrimaryData(v) ==
    [country |-> "KE", country_name |-> "Kenya",
     city |-> IF v = "A" THEN "Nairobi" ELSE "Mombasa",
     region |-> IF v = "A" THEN "Nairobi Area" ELSE "Coast",
     latitude |-> IF v = "A" THEN "-1.28" ELSE "-4.04",
     longitude |-> IF v = "A" THEN "36.82" ELSE "39.66",
     timezone |-> "Africa/Nairobi", isp |-> "Safaricom"]

\* A provider call ends in an exception (timeout, connection error, bad JSON),
\* in a status other than 200, or in a 200 with a body.
PrimaryOutcomes(variants) ==
    [kind : {"exception", "http_error", "status_fail"}, v : {"-"}]
        \cup [kind : {"success"}, v : variants]

FallbackOutcomes == [kind : {"exception", "http_error"}, country : {None}]
                        \cup [kind : {"ok"}, country : {"KE"}]

is_private_ip(ip) ==
    \/ IsV4Text(ip) /\ Len(ip) >= 2 /\ ip[1] = 10
    \/ IsV4Text(ip) /\ Len(ip) >= 3 /\ ip[1] = 172 /\ ip[2] = 16
    \/ IsV4Text(ip) /\ Len(ip) >= 3 /\ ip[1] = 192 /\ ip[2] = 168
    \/ ip = IpLoopback
    \/ ip = IpLoopback6

\* A variant that asks country.is before ip-api.com.
fetch_fallback_first(prim, fb) ==
    IF fb.kind = "ok"
    THEN [data |-> [NullData EXCEPT !.country = fb.country],
          calls |-> 1, ok |-> TRUE]
    ELSE IF prim.kind = "success"
         THEN [data |-> PrimaryData(prim.v), calls |-> 2, ok |-> TRUE]
         ELSE [data |-> NullData, calls |-> 2, ok |-> FALSE]

\* Result: the attributes, the number of provider calls made, and whether a
\* provider answered (ok) or the final fallback of empty data was returned.
fetch_geolocation_data(prim, fb) ==
    IF prim.kind = "success"
    THEN [data |-> PrimaryData(prim.v), calls |-> 1, ok |-> TRUE]
    ELSE IF fb.kind = "ok"
         THEN [data |-> [NullData EXCEPT !.country = fb.country],
               calls |-> 2, ok |-> TRUE]
         ELSE [data |-> NullData, calls |-> 2, ok |-> FALSE]

(***************************************************************************)
(* The two cache tiers.  cache[ip] is the locmem entry (value, expiry      *)
(* instant, and origin: the instant of the provider lookup the value comes *)
(* from); geoCache[ip] is the GeolocationCache row.                        *)
(***************************************************************************)
NoEntry == [present |-> FALSE]

\* locmem's get: an entry whose expiry has been reached is gone.
CacheLive(c, ip, t) == c[ip].present /\ c[ip].expires > t

CacheSet(c, ip, data, origin, t) ==
    [c EXCEPT ![ip] = [present |-> TRUE, data |-> data,
                       expires |-> t + CacheTimeout, origin |-> origin]]

CacheDropExpired(c, ip, t) ==
    IF c[ip].present /\ c[ip].expires <= t THEN [c EXCEPT ![ip] = NoEntry] ELSE c

is_expired_at_horizon(row, t) == t >= row.updated_at + ExpiryAge

is_expired(row, t) == t > row.updated_at + ExpiryAge

\* GeolocationCache.objects.update_or_create(ip_address=ip, defaults=data)
GeoUpsert(g, ip, data, t) ==
    [g EXCEPT ![ip] = [present |-> TRUE, data |-> data, updated_at |-> t,
                       created_at |-> IF g[ip].present THEN g[ip].created_at ELSE t]]

\* The body of the try around the durable read: a fresh row ("hit"), none
\* ("miss"), or an exception of the database.
DurableRead(dbRead, g, ip, t) ==
    IF ~dbRead THEN "raised"
    ELSE IF g[ip].present /\ ~is_expired(g[ip], t) THEN "hit" ELSE "miss"

\* The body of the try around the durable write.
DurableWrite(dbWrite) == IF dbWrite THEN "done" ELSE "raised"

\* A variant: an except clause that raises again.
except_reraise(outcome) == outcome = "raised"

\* except: pass.  Whether the exception of the try body leaves the statement.
except_pass(outcome) == FALSE

\* get_geolocation_data: the returned attributes (or raised: an exception
\* instead), both tiers afterwards, the provider calls made and the step that
\* produced the answer.  dbRead and dbWrite say whether the durable tier
\* answers the read and the write.
get_geolocation_data(ip, prim, fb, dbRead, dbWrite, c, g, t) ==
    IF is_private_ip(ip)
    THEN [data |-> NullData, cache |-> c, geoCache |-> g, calls |-> 0,
          source |-> "private", origin |-> t, ok |-> FALSE, raised |-> FALSE]
    ELSE IF CacheLive(c, ip, t)
    THEN [data |-> c[ip].data, cache |-> c, geoCache |-> g, calls |-> 0,
          source |-> "cache", origin |-> c[ip].origin, ok |-> FALSE,
          raised |-> FALSE]
    ELSE LET c0 == CacheDropExpired(c, ip, t)
             rd == DurableRead(dbRead, g, ip, t) IN
         IF except_pass(rd)
         THEN [data |-> None, cache |-> c0, geoCache |-> g, calls |-> 0,
               source |-> "db", origin |-> t, ok |-> FALSE, raised |-> TRUE]
         ELSE IF rd = "hit"
         THEN [data |-> g[ip].data,
               cache |-> CacheSet(c0, ip, g[ip].data, g[ip].updated_at, t),
               geoCache |-> g, calls |-> 0, source |-> "db",
               origin |-> g[ip].updated_at, ok |-> FALSE, raised |-> FALSE]
         ELSE LET f == fetch_geolocation_data(prim, fb)
                  wr == DurableWrite(dbWrite) IN
              [data |-> IF except_pass(wr) THEN None ELSE f.data,
               cache |-> CacheSet(c0, ip, f.data, t, t),
               geoCache |-> IF wr = "done" THEN GeoUpsert(g, ip, f.data, t) ELSE g,
               calls |-> f.calls, source |-> "fetch", origin |-> t, ok |-> f.ok,
               raised |-> except_pass(wr)]

\* lookups[ip]: the latest provider lookup of ip that a provider answered, and
\* whether the durable tier has failed for ip at or after it.
NoLookup == [present |-> FALSE]

LookupsAfter(l, ip, r, dbRead, dbWrite, t) ==
    IF r.source = "fetch" /\ r.ok
    THEN [l EXCEPT ![ip] = [present |-> TRUE, at |-> t, data |-> r.data,
                            dbFailed |-> ~dbWrite]]
    ELSE IF l[ip].present /\ r.source = "fetch" /\ ~(dbRead /\ dbWrite)
         THEN [l EXCEPT ![ip].dbFailed = TRUE]
         ELSE l

(***************************************************************************)
(* Initial state: empty stores, no configuration row, detector idle.       *)
(***************************************************************************)
NoConfig == -1
ConfigKeys == {"high_traffic_threshold", "detection_period_minutes",
               "auto_block_threshold", "block_duration_days"}
DetIdle == [pc |-> "idle", clean |-> TRUE]
NoHist == [stable |-> 0, susp |-> {}, window |-> {}]

\* The task instances that workers may execute side by side: two of the
\* detector, two of the auto-blocker.
DetJobs == {"d1", "d2"}
AutoJobs == {"a1", "a2"}
JobIdle == [pc |-> "idle"]

Init ==
    /\ now = 0
    /\ cache = [ip \in AllIPs |-> NoEntry]
    /\ geoCache = [ip \in AllIPs |-> NoEntry]
    /\ lookups = [ip \in AllIPs |-> NoLookup]
    /\ blocked = {}
    /\ requestLog = <<>>
    /\ suspicious = {}
    /\ config = [k \in ConfigKeys |-> NoConfig]
    /\ det = DetIdle
    /\ hist = NoHist
    /\ obs = [op |-> "none"]
    /\ jobs = [j \in DetJobs \cup AutoJobs |-> JobIdle]

\* A step of the environment on the data (a request, a manual change): it
\* ends a succession of undisturbed detector runs, and a run in progress is
\* no longer an undisturbed one.
Disturb ==
    /\ hist' = NoHist
    /\ det' = IF det.pc = "idle" THEN det ELSE [det EXCEPT !.clean = FALSE]

\* The clock advances by d, up to the horizon of the specification.
Tick(d, horizon) ==
    /\ now + d <= horizon
    /\ now' = now + d
    /\ UNCHANGED <<jobs, cache, geoCache, lookups, blocked, requestLog, suspicious,
                   config, det, hist, obs>>

(***************************************************************************)
(* The resolver called on its own.                                         *)
(***************************************************************************)
ResolveOp(ip, prim, fb, dbRead, dbWrite) ==
    LET r == get_geolocation_data(ip, prim, fb, dbRead, dbWrite, cache, geoCache, now) IN
    /\ cache' = r.cache
    /\ geoCache' = r.geoCache
    /\ lookups' = LookupsAfter(lookups, ip, r, dbRead, dbWrite, now)
    /\ obs' = [op |-> "resolve", ip |-> ip, data |-> r.data, calls |-> r.calls,
               source |-> r.source, origin |-> r.origin, ok |-> r.ok,
               raised |-> r.raised, at |-> now]
    /\ UNCHANGED <<jobs, now, blocked, requestLog, suspicious, config, det, hist>>

\* The locmem tier loses an entry (culling, process restart).
Evict(ip) ==
    /\ cache[ip].present
    /\ cache' = [cache EXCEPT ![ip] = NoEntry]
    /\ UNCHANGED <<jobs, now, geoCache, lookups, blocked, requestLog, suspicious,
                   config, det, hist, obs>>

GeoIPs == {IpPublic, Ip10}
GeoSteps == {720}
GeoPrimary == {[kind |-> "exception", v |-> "-"], [kind |-> "success", v |-> "A"]}
GeoFallback == {[kind |-> "exception", country |-> None], [kind |-> "ok", country |-> "KE"]}

GeoResolve ==
    \E ip \in GeoIPs, prim \in GeoPrimary, fb \in GeoFallback :
        ResolveOp(ip, prim, fb, TRUE, TRUE)

GeoEvict == \E ip \in GeoIPs : Evict(ip)

GeoTick == \E d \in GeoSteps : Tick(d, MaxGeoTicks * d)

NextGeo == GeoResolve \/ GeoEvict \/ GeoTick

SpecGeo == Init /\ [][NextGeo]_vars

(***************************************************************************)
(* The resolver over the private and loopback ranges.                      *)
(***************************************************************************)
RangeIPs == {Ip10, Ip172_16, Ip172_20, Ip192_168, IpLoopback, IpLoopback6}

RangeResolve ==
    \E ip \in RangeIPs, prim \in GeoPrimary, fb \in GeoFallback :
        ResolveOp(ip, prim, fb, TRUE, TRUE)

RangeEvict == \E ip \in RangeIPs : Evict(ip)

NextRange == RangeResolve \/ RangeEvict \/ GeoTick

SpecRange == Init /\ [][NextRange]_vars

(***************************************************************************)
(* The resolver with a durable tier that may fail.                         *)
(***************************************************************************)
FaultResolve ==
    \E prim \in GeoPrimary \cup {[kind |-> "success", v |-> "B"]},
       fb \in GeoFallback, dbRead \in BOOLEAN, dbWrite \in BOOLEAN :
        ResolveOp(IpPublic, prim, fb, dbRead, dbWrite)

FaultEvict == Evict(IpPublic)

NextFault == FaultResolve \/ FaultEvict \/ GeoTick

SpecFault == Init /\ [][NextFault]_vars

(***************************************************************************)
(* The resolver with every outcome of the two providers.                   *)
(***************************************************************************)
ChainIPs == {IpPublic, IpPublic2}

ChainResolve ==
    \E ip \in ChainIPs, prim \in PrimaryOutcomes({"A"}), fb \in FallbackOutcomes :
        ResolveOp(ip, prim, fb, TRUE, TRUE)

ChainEvict == \E ip \in ChainIPs : Evict(ip)

NextChain == ChainResolve \/ ChainEvict \/ GeoTick

SpecChain == Init /\ [][NextChain]_vars

(***************************************************************************)
(* The blocklist and the block_ip management command.  A BlockedIP row is  *)
(* [ip_address, created_at, reason]; a reason is a text with the count it  *)
(* cites (0 when it cites none).                                           *)
(***************************************************************************)
Reason(text, n) == [text |-> text, n |-> n]

BlockedRows(b, ip) == {r \in b : r.ip_address = ip}

is_ip_blocked_never(b, ip) == FALSE

\* BlockedIP.objects.filter(ip_address=ip).exists()
is_ip_blocked(b, ip) == BlockedRows(b, ip) # {}

BlockedIP_create_always(b, ip, reason, t) ==
    [rows |-> b \cup {[ip_address |-> ip, created_at |-> t, reason |-> reason]},
     created |-> TRUE]

\* A variant that writes the reason given over the one of an existing row.
BlockedIP_update_or_create(b, ip, reason, t) ==
    IF BlockedRows(b, ip) # {}
    THEN [rows |-> {IF r.ip_address = ip THEN [r EXCEPT !.reason = reason]
                    ELSE r : r \in b},
          created |-> FALSE]
    ELSE [rows |-> b \cup {[ip_address |-> ip, created_at |-> t, reason |-> reason]},
          created |-> TRUE]

\* BlockedIP.objects.get_or_create(ip_address=ip, defaults={'reason': reason}):
\* the rows afterwards and whether a row was created.
BlockedIP_get_or_create(b, ip, reason, t) ==
    IF BlockedRows(b, ip) # {}
    THEN [rows |-> b, created |-> FALSE]
    ELSE [rows |-> b \cup {[ip_address |-> ip, created_at |-> t, reason |-> reason]},
          created |-> TRUE]

\* One pass of the loop of Command.handle over ips[i..], carrying the rows, the
\* messages written and the two counters.  faultAt is the position at which
\* the database raises (0: nowhere).
RECURSIVE HandleLoop(_, _, _, _, _, _, _, _, _)
HandleLoop(ips, i, reason, faultAt, b, msgs, success_count, error_count, t) ==
    IF i > Len(ips)
    THEN [rows |-> b, messages |-> msgs, success_count |-> success_count,
          error_count |-> error_count]
    ELSE IF ~ValidIP(ips[i])
    THEN HandleLoop(ips, i + 1, reason, faultAt, b, Append(msgs, "invalid"),
                    success_count, error_count + 1, t)
    ELSE IF faultAt = i
    THEN HandleLoop(ips, i + 1, reason, faultAt, b, Append(msgs, "error"),
                    success_count, error_count + 1, t)
    ELSE LET g == BlockedIP_get_or_create(b, ips[i], Reason(reason, 0), t) IN
         IF g.created
         THEN HandleLoop(ips, i + 1, reason, faultAt, g.rows,
                         Append(msgs, "blocked"), success_count + 1, error_count, t)
         ELSE HandleLoop(ips, i + 1, reason, faultAt, g.rows,
                         Append(msgs, "already"), success_count, error_count, t)

handle(ips, reason, faultAt) ==
    LET h == HandleLoop(ips, 1, reason, faultAt, blocked, <<>>, 0, 0, now) IN
    /\ blocked' = h.rows
    /\ obs' = [op |-> "block_ip", ips |-> ips, reason |-> reason,
               messages |-> h.messages, success_count |-> h.success_count,
               error_count |-> h.error_count]
    /\ Disturb
    /\ UNCHANGED <<jobs, now, cache, geoCache, lookups, requestLog, suspicious,
                   config>>

CliIPs == {IpPublic, IpPublic2, IpBadOctet}
CliReasons == {None, "abuse"}
CliSteps == {1080}

SeqsUpTo(S, n) == UNION {[1..k -> S] : k \in 1..n}

CliHandle ==
    \E ips \in SeqsUpTo(CliIPs, MaxArgs), reason \in CliReasons,
       faultAt \in {0, 1} :
        handle(ips, reason, faultAt)

CliTick == \E d \in CliSteps : Tick(d, MaxCliTicks * d)

NextCli == CliHandle \/ CliTick

SpecCli == Init /\ [][NextCli]_vars

(***************************************************************************)
(* The request pipeline: IPLoggingMiddleware.__call__ and the view behind  *)
(* it.  A request carries the addresses of its X-Forwarded-For header      *)
(* (none when the header is absent), its peer address, its path and what   *)
(* the view does with it.  A RequestLog row is [ip_address, timestamp,     *)
(* path, geo].                                                             *)
(***************************************************************************)
get_client_ip(req) ==
    IF req.xff # <<>> THEN Head(req.xff) ELSE req.remote

LogRow(ip, path, geo, t) ==
    [ip_address |-> ip, timestamp |-> t, path |-> path, geo |-> geo]

\* The row login_view writes after a successful login.
LoginGeo == [NullData EXCEPT !.country = "N/A", !.city = "N/A", !.isp = "N/A"]

\* The rows the view appends.  A successful login writes its own row; country
\* 'N/A' is longer than the column's max_length of 2, which a database that
\* enforces the length refuses (the view then ends in a server error).
ViewRows(req, enforceLength, t) ==
    IF req.view = "login_ok" /\ ~enforceLength
    THEN <<LogRow(get_client_ip(req), req.path, LoginGeo, t)>>
    ELSE <<>>

ViewStatus(req, enforceLength) ==
    IF req.view = "login_ok" /\ enforceLength THEN 500 ELSE 200

RequestUpTo(req, prim, fb, enforceLength, maxLog) ==
    LET ip == get_client_ip(req) IN
    IF is_ip_blocked(blocked, ip)
    THEN /\ obs' = [op |-> "request", ip |-> ip,
                    status |-> 403, denied |-> ip, calls |-> 0,
                    handler |-> FALSE]
         /\ UNCHANGED <<jobs, now, cache, geoCache, lookups, blocked, requestLog,
                        suspicious, config, det, hist>>
    ELSE LET r == get_geolocation_data(ip, prim, fb, TRUE, TRUE, cache, geoCache, now)
             rows == <<LogRow(ip, req.path, r.data, now)>>
                         \o ViewRows(req, enforceLength, now) IN
         /\ Len(requestLog) + Len(rows) <= maxLog
         /\ cache' = r.cache
         /\ geoCache' = r.geoCache
         /\ lookups' = LookupsAfter(lookups, ip, r, TRUE, TRUE, now)
         /\ requestLog' = requestLog \o rows
         /\ obs' = [op |-> "request", ip |-> ip,
                    status |-> ViewStatus(req, enforceLength), denied |-> None,
                    calls |-> r.calls, handler |-> TRUE]
         /\ Disturb
         /\ UNCHANGED <<jobs, now, blocked, suspicious, config>>

\* The same with the log of the model kept to MaxLog rows.
Request(req, prim, fb, enforceLength) ==
    RequestUpTo(req, prim, fb, enforceLength, MaxLog)

ReqIPs == {IpPublic, Ip10}
ReqHeaders == {<<>>, <<IpPublic>>, <<Ip10, IpPublic>>}
ReqPaths == {"/login/"}
ReqViews == {"other", "login_ok"}

ReqRequest ==
    \E xff \in ReqHeaders, remote \in ReqIPs, path \in ReqPaths,
       view \in ReqViews, fb \in GeoFallback, enforceLength \in BOOLEAN :
        Request([xff |-> xff, remote |-> remote, path |-> path, view |-> view],
                [kind |-> "exception", v |-> "-"], fb, enforceLength)

ReqBlock == \E ip \in ReqIPs : handle(<<ip>>, None, 0)

NextReq == ReqRequest \/ ReqBlock

SpecReq == Init /\ [][NextReq]_vars

(***************************************************************************)
(* The anomaly detector.  A SuspiciousIP row is [ip_address, reason,       *)
(* request_count, sensitive_paths, first_detected, last_detected,          *)
(* is_active]; the description, a text made of the other fields, is left   *)
(* out.  A run reads the configuration and the clock once, then executes   *)
(* the three passes and the sweep one after the other; requests and        *)
(* manual changes may come in between two of them.                         *)
(***************************************************************************)
HIGH_TRAFFIC == "high_traffic"
SENSITIVE_ACCESS == "sensitive_access"
MULTIPLE_FAILURES == "multiple_failures"

\* A variant of the list without the login endpoints.
sensitive_paths_without_login ==
    {"/admin/", "/api/admin/", "/wp-admin/", "/phpmyadmin/", "/server-status/",
     "/config/", "/env/", "/.env", "/.git/", "/backup/"}

sensitive_paths == {"/admin/", "/admin/login/", "/api/login/", "/login/",
                    "/api/admin/", "/wp-admin/", "/phpmyadmin/",
                    "/server-status/", "/config/", "/env/", "/.env", "/.git/",
                    "/backup/"}

login_paths == {"/api/login/", "/login/", "/admin/login/"}

\* int(AnomalyDetectionConfig.get_config(name, default))
get_config(cfg, name, default) ==
    IF cfg[name] = NoConfig THEN default ELSE cfg[name]

SuspiciousRows(susp, ip) == {r \in susp : r.ip_address = ip}

\* A variant whose passes exclude no address.
ActiveIPs_none(susp) == {}

\* SuspiciousIP.objects.filter(is_active=True).values_list('ip_address')
ActiveIPs(susp) == {r.ip_address : r \in {x \in susp : x.is_active}}

\* The rows of the log a pass reads: timestamp__gte=time_threshold, and
\* path__in=paths where the pass filters on the path.
WindowRows(log, time_threshold, paths, anyPath) ==
    {i \in 1..Len(log) : /\ log[i].timestamp >= time_threshold
                         /\ (anyPath \/ log[i].path \in paths)}

\* get_or_create(ip_address=ip, defaults=...) followed, when the row exists,
\* by the assignments and save() of the high-traffic and auth-failure passes.
UpsertOverwrite(susp, ip, reason, count, t) ==
    IF SuspiciousRows(susp, ip) = {}
    THEN susp \cup {[ip_address |-> ip, reason |-> reason,
                     request_count |-> count, sensitive_paths |-> {},
                     first_detected |-> t, last_detected |-> t,
                     is_active |-> TRUE]}
    ELSE {IF r.ip_address = ip
          THEN [r EXCEPT !.reason = reason, !.request_count = count,
                         !.last_detected = t, !.is_active = TRUE]
          ELSE r : r \in susp}

\* A variant that inserts a row for every group, whether or not the address
\* has one.
UpsertAccumulate_create_always(susp, ip, path, count, t) ==
    susp \cup {[ip_address |-> ip, reason |-> SENSITIVE_ACCESS,
                request_count |-> count, sensitive_paths |-> {path},
                first_detected |-> t, last_detected |-> t,
                is_active |-> TRUE]}

\* The same for the sensitive-path pass: an existing row gets the path added
\* and the count increased.
UpsertAccumulate(susp, ip, path, count, t) ==
    IF SuspiciousRows(susp, ip) = {}
    THEN susp \cup {[ip_address |-> ip, reason |-> SENSITIVE_ACCESS,
                     request_count |-> count, sensitive_paths |-> {path},
                     first_detected |-> t, last_detected |-> t,
                     is_active |-> TRUE]}
    ELSE {IF r.ip_address = ip
          THEN [r EXCEPT !.reason = SENSITIVE_ACCESS,
                         !.request_count = @ + count,
                         !.sensitive_paths = @ \cup {path},
                         !.last_detected = t, !.is_active = TRUE]
          ELSE r : r \in susp}

\* A variant whose filter on the count is strict.
GroupsByIp_strict(log, rows, minCount, susp) ==
    {g \in {[ip_address |-> ip,
             count |-> Cardinality({i \in rows : log[i].ip_address = ip})] :
                ip \in {log[i].ip_address : i \in rows}} :
        g.count > minCount /\ g.ip_address \notin ActiveIPs(susp)}

\* The groups of a query: values('ip_address').annotate(Count('id')),
\* filtered on the count, without the addresses active when it is evaluated.
GroupsByIp(log, rows, minCount, susp) ==
    {g \in {[ip_address |-> ip,
             count |-> Cardinality({i \in rows : log[i].ip_address = ip})] :
                ip \in {log[i].ip_address : i \in rows}} :
        g.count >= minCount /\ g.ip_address \notin ActiveIPs(susp)}

\* values('ip_address', 'path').annotate(access_count=Count('id'))
GroupsByIpPath(log, rows, susp) ==
    {g \in {[ip_address |-> k[1], path |-> k[2],
             count |-> Cardinality({i \in rows : /\ log[i].ip_address = k[1]
                                                 /\ log[i].path = k[2]})] :
                k \in {<<log[i].ip_address, log[i].path>> : i \in rows}} :
        g.ip_address \notin ActiveIPs(susp)}

\* The loop of a pass over the groups of its query, one upsert per group.
RECURSIVE ForEachOverwrite(_, _, _, _)
ForEachOverwrite(groups, susp, reason, t) ==
    IF groups = {} THEN susp
    ELSE LET g == CHOOSE x \in groups : TRUE IN
         ForEachOverwrite(groups \ {g},
                          UpsertOverwrite(susp, g.ip_address, reason, g.count, t),
                          reason, t)

RECURSIVE ForEachAccumulate(_, _, _)
ForEachAccumulate(groups, susp, t) ==
    IF groups = {} THEN susp
    ELSE LET g == CHOOSE x \in groups : TRUE IN
         ForEachAccumulate(groups \ {g},
                           UpsertAccumulate(susp, g.ip_address, g.path, g.count, t),
                           t)

detect_high_traffic_ips(log, susp, time_threshold, threshold, t) ==
    ForEachOverwrite(
        GroupsByIp(log, WindowRows(log, time_threshold, {}, TRUE), threshold, susp),
        susp, HIGH_TRAFFIC, t)

detect_sensitive_path_access(log, susp, time_threshold, paths, t) ==
    ForEachAccumulate(
        GroupsByIpPath(log, WindowRows(log, time_threshold, paths, FALSE), susp),
        susp, t)

\* A variant of the auth-failure pass whose filter on the count is strict.
detect_auth_failures_strict(log, susp, time_threshold, t) ==
    ForEachOverwrite(
        GroupsByIp_strict(log, WindowRows(log, time_threshold, login_paths, FALSE),
                          AUTH_ATTEMPT_THRESHOLD, susp),
        susp, MULTIPLE_FAILURES, t)

detect_auth_failures(log, susp, time_threshold, t) ==
    ForEachOverwrite(
        GroupsByIp(log, WindowRows(log, time_threshold, login_paths, FALSE),
                   AUTH_ATTEMPT_THRESHOLD, susp),
        susp, MULTIPLE_FAILURES, t)

\* A variant that deletes at the retention age already.
cleanup_at_retention_age(susp, t) ==
    {r \in susp : ~(r.last_detected <= t - CleanupAge /\ ~r.is_active)}

cleanup_old_suspicious_ips(susp, t) ==
    {r \in susp : ~(r.last_detected < t - CleanupAge /\ ~r.is_active)}

\* detect_suspicious_ips, first part: the configuration and the clock are
\* read and the high-traffic pass runs.
DetHighTraffic ==
    /\ det.pc = "idle"
    /\ LET threshold == get_config(config, "high_traffic_threshold",
                                   DEFAULT_HIGH_TRAFFIC_THRESHOLD)
           period == get_config(config, "detection_period_minutes",
                                DEFAULT_DETECTION_PERIOD_MINUTES)
       IN /\ det' = [pc |-> "sensitive", clean |-> TRUE,
                     time_threshold |-> now - period]
          /\ suspicious' = detect_high_traffic_ips(requestLog, suspicious,
                                                   now - period, threshold, now)
          /\ hist' = IF /\ hist.stable > 0
                        /\ hist.window # WindowRows(requestLog, now - period,
                                                    {}, TRUE)
                     THEN NoHist ELSE hist
    /\ UNCHANGED <<jobs, now, cache, geoCache, lookups, blocked, requestLog, config,
                   obs>>

DetSensitive ==
    /\ det.pc = "sensitive"
    /\ det' = [det EXCEPT !.pc = "auth"]
    /\ suspicious' = detect_sensitive_path_access(requestLog, suspicious,
                                                  det.time_threshold,
                                                  sensitive_paths, now)
    /\ UNCHANGED <<jobs, now, cache, geoCache, lookups, blocked, requestLog, config,
                   hist, obs>>

DetAuth ==
    /\ det.pc = "auth"
    /\ det' = [det EXCEPT !.pc = "cleanup"]
    /\ suspicious' = detect_auth_failures(requestLog, suspicious,
                                          det.time_threshold, now)
    /\ UNCHANGED <<jobs, now, cache, geoCache, lookups, blocked, requestLog, config,
                   hist, obs>>

\* The sweep ends the run.  hist counts the runs completed in succession on
\* the same rows of the log in the window, with no step of the environment on
\* the data since the first of them began, and keeps the rows the first of
\* them left.  (The clock may advance between two of them.)
DetCleanup ==
    /\ det.pc = "cleanup"
    /\ det' = DetIdle
    /\ suspicious' = cleanup_old_suspicious_ips(suspicious, now)
    /\ hist' = IF ~det.clean THEN NoHist
               ELSE IF hist.stable = 0
                    THEN [stable |-> 1, susp |-> suspicious',
                          window |-> WindowRows(requestLog, det.time_threshold,
                                                {}, TRUE)]
               ELSE [hist EXCEPT !.stable = 2]
    /\ UNCHANGED <<jobs, now, cache, geoCache, lookups, blocked, requestLog, config, obs>>

\* An operator sets a configuration row.
SetConfig(name, value) ==
    /\ config[name] # value
    /\ config' = [config EXCEPT ![name] = value]
    /\ Disturb
    /\ UNCHANGED <<jobs, now, cache, geoCache, lookups, blocked, requestLog,
                   suspicious, obs>>

\* An operator marks the row of an address as no longer active, through
\* save() (last_detected is auto_now) or through an update of the column.
\* (Rows whose count has passed MaxCount are left alone, which keeps the
\* counts of the model finite.)
Deactivate(ip, viaSave) ==
    /\ \E r \in suspicious :
          r.ip_address = ip /\ r.is_active /\ r.request_count <= MaxCount
    /\ suspicious' = {IF r.ip_address = ip
                      THEN [r EXCEPT !.is_active = FALSE,
                                     !.last_detected = IF viaSave THEN now ELSE @]
                      ELSE r : r \in suspicious}
    /\ Disturb
    /\ UNCHANGED <<jobs, now, cache, geoCache, lookups, blocked, requestLog, config, obs>>

\* The specification of the detector: two addresses, one of which asks for
\* sensitive paths too.  Here a run is not interleaved with the environment
\* (it takes far less than one step of the clock).
DetIPs == {Ip10, Ip10b}
DetRequests == {<<Ip10, "/admin/">>, <<Ip10, "/.env">>, <<Ip10b, "/">>}
DetSteps == {60}
DetThresholds == {2}

DetRequest ==
    /\ det.pc = "idle"
    /\ Len(requestLog) < MaxDetLog
    /\ \E q \in DetRequests :
        Request([xff |-> <<>>, remote |-> q[1], path |-> q[2], view |-> "other"],
                [kind |-> "exception", v |-> "-"],
                [kind |-> "exception", country |-> None], FALSE)

DetSetConfig ==
    /\ det.pc = "idle"
    /\ \E v \in DetThresholds : SetConfig("high_traffic_threshold", v)

DetDeactivate ==
    /\ det.pc = "idle"
    /\ \E ip \in DetIPs : Deactivate(ip, FALSE)

DetTick == det.pc = "idle" /\ \E d \in DetSteps : Tick(d, MaxDetTicks * d)

NextDet ==
    \/ DetHighTraffic \/ DetSensitive \/ DetAuth \/ DetCleanup
    \/ DetRequest \/ DetSetConfig \/ DetDeactivate \/ DetTick

SpecDet == Init /\ [][NextDet]_vars

\* The specification of the detector over the retention age: the same, with
\* steps of the clock of seven days.
SweepSteps == {CleanupAge}

SweepTick == det.pc = "idle" /\ \E d \in SweepSteps : Tick(d, MaxDetTicks * d)

NextSweep ==
    \/ DetHighTraffic \/ DetSensitive \/ DetAuth \/ DetCleanup
    \/ DetRequest \/ DetSetConfig \/ DetDeactivate \/ SweepTick

SpecSweep == Init /\ [][NextSweep]_vars

\* The specification of the detector under login traffic: requests come in
\* at any time, between two passes of a run too.
AuthRequests == {<<Ip10, "/login/">>, <<Ip10b, "/api/login/">>}

AuthRequest ==
    \E q \in AuthRequests :
        RequestUpTo([xff |-> <<>>, remote |-> q[1], path |-> q[2],
                     view |-> "other"],
                    [kind |-> "exception", v |-> "-"],
                    [kind |-> "exception", country |-> None], FALSE, MaxAuthLog)

\* One step of the clock, which takes the rows logged before it out of the
\* window.
AuthTick == det.pc = "idle" /\ Tick(61, 61)

NextAuth ==
    \/ DetHighTraffic \/ DetSensitive \/ DetAuth \/ DetCleanup
    \/ AuthRequest \/ DetDeactivate \/ AuthTick

SpecAuth == Init /\ [][NextAuth]_vars

(***************************************************************************)
(* The three passes called in an order of one's choosing, on the log, the  *)
(* configuration and the records as they are.                              *)
(***************************************************************************)
PassOrders ==
    {o \in [1..3 -> {"high", "sensitive", "auth"}] :
        {o[i] : i \in 1..3} = {"high", "sensitive", "auth"}}

RunPass(name, log, susp, time_threshold, threshold, t) ==
    IF name = "high"
    THEN detect_high_traffic_ips(log, susp, time_threshold, threshold, t)
    ELSE IF name = "sensitive"
    THEN detect_sensitive_path_access(log, susp, time_threshold,
                                      sensitive_paths, t)
    ELSE detect_auth_failures(log, susp, time_threshold, t)

RunPasses(order, log, susp, time_threshold, threshold, t) ==
    RunPass(order[3], log,
            RunPass(order[2], log,
                    RunPass(order[1], log, susp, time_threshold, threshold, t),
                    time_threshold, threshold, t),
            time_threshold, threshold, t)

DetInOrder(order) ==
    /\ det.pc = "idle"
    /\ LET threshold == get_config(config, "high_traffic_threshold",
                                   DEFAULT_HIGH_TRAFFIC_THRESHOLD)
           period == get_config(config, "detection_period_minutes",
                                DEFAULT_DETECTION_PERIOD_MINUTES)
       IN suspicious' = RunPasses(order, requestLog, suspicious, now - period,
                                  threshold, now)
    /\ obs' = [op |-> "detect_in_order", before |-> suspicious]
    /\ UNCHANGED <<jobs, now, cache, geoCache, lookups, blocked, requestLog,
                   config, det, hist>>

OrderRequests == {<<Ip10, "/login/">>, <<Ip10b, "/">>}

OrderRequest ==
    \E q \in OrderRequests :
        RequestUpTo([xff |-> <<>>, remote |-> q[1], path |-> q[2],
                     view |-> "other"],
                    [kind |-> "exception", v |-> "-"],
                    [kind |-> "exception", country |-> None], FALSE, MaxAuthLog)

OrderRun == \E o \in PassOrders : DetInOrder(o)

NextOrder == OrderRun \/ OrderRequest \/ DetSetConfig \/ DetDeactivate

SpecOrder == Init /\ [][NextOrder]_vars

(***************************************************************************)
(* The auto-blocker.  A run reads the configuration, evaluates its query   *)
(* over the active suspicion records and, for each address of the result   *)
(* that has no BlockedIP row, creates one.                                 *)
(***************************************************************************)
\* filter(is_active=True).values('ip_address').annotate(Count('id'))
\*     .filter(suspicion_count__gte=threshold)
FrequentSuspicious(susp, threshold) ==
    {g \in {[ip_address |-> ip,
             suspicion_count |->
                 Cardinality({r \in susp : r.is_active /\ r.ip_address = ip})] :
                ip \in ActiveIPs(susp)} :
        g.suspicion_count >= threshold}

\* A variant without the unique index.
BlockedIP_create_unconstrained(b, ip, reason, t) ==
    [rows |-> b \cup {[ip_address |-> ip, created_at |-> t, reason |-> reason]},
     error |-> FALSE]

\* BlockedIP.objects.create(...): the unique index on ip_address refuses a
\* second row for an address (IntegrityError).
BlockedIP_create(b, ip, reason, t) ==
    IF BlockedRows(b, ip) # {}
    THEN [rows |-> b, error |-> TRUE]
    ELSE [rows |-> b \cup {[ip_address |-> ip, created_at |-> t, reason |-> reason]},
          error |-> FALSE]

\* A variant that writes the row of the run over the one that is there.
AutoBlockOne_overwrite(b, g, t) ==
    {r \in b : r.ip_address # g.ip_address}
        \cup {[ip_address |-> g.ip_address, created_at |-> t,
               reason |-> Reason("auto", g.suspicion_count)]}

\* The body of the loop for one address of the result.
AutoBlockOne(b, g, t) ==
    IF is_ip_blocked(b, g.ip_address)
    THEN b
    ELSE BlockedIP_create(b, g.ip_address,
                          Reason("auto", g.suspicion_count), t).rows

RECURSIVE AutoBlockLoop(_, _, _)
AutoBlockLoop(groups, b, t) ==
    IF groups = {} THEN b
    ELSE LET g == CHOOSE x \in groups : TRUE IN
         AutoBlockLoop(groups \ {g}, AutoBlockOne(b, g, t), t)

\* auto_block_suspicious_ips, run on its own.
AutoBlock ==
    /\ det.pc = "idle"
    /\ LET threshold == get_config(config, "auto_block_threshold",
                                   DEFAULT_AUTO_BLOCK_THRESHOLD)
           block_duration_days == get_config(config, "block_duration_days",
                                             DEFAULT_BLOCK_DURATION_DAYS)
           groups == FrequentSuspicious(suspicious, threshold)
           rows == AutoBlockLoop(groups, blocked, now)
       IN /\ blocked' = rows
          /\ obs' = [op |-> "auto_block", threshold |-> threshold,
                     seen |-> suspicious,
                     created |-> {r.ip_address : r \in rows \ blocked},
                     blocked_count |-> Cardinality(rows \ blocked)]
    /\ UNCHANGED <<jobs, now, cache, geoCache, lookups, requestLog, suspicious,
                   config, det, hist>>

\* The specification of the core as a whole, its operations one at a time:
\* requests, the resolver, detector runs, auto-blocker runs, the command and
\* the configuration of the auto-blocker.
AutoThresholds == {1, 2}

AutoRequest == DetRequest

AutoResolve ==
    \E prim \in GeoPrimary :
        ResolveOp(IpPublic, prim, [kind |-> "exception", country |-> None],
                  TRUE, TRUE)

AutoSetConfig ==
    /\ det.pc = "idle"
    /\ \E v \in AutoThresholds : SetConfig("auto_block_threshold", v)

AutoCli ==
    /\ det.pc = "idle"
    /\ \E ip \in DetIPs : handle(<<ip>>, "abuse", 0)

NextAuto ==
    \/ DetHighTraffic \/ DetSensitive \/ DetAuth \/ DetCleanup
    \/ AutoRequest \/ AutoResolve \/ AutoSetConfig \/ AutoCli \/ AutoBlock

SpecAuto == Init /\ [][NextAuto]_vars

\* The specification of the two tasks over time: detector runs and
\* auto-blocker runs, with requests, the clock and an operator who
\* deactivates a record between them.
NextTasks ==
    \/ DetHighTraffic \/ DetSensitive \/ DetAuth \/ DetCleanup
    \/ DetRequest \/ DetDeactivate \/ DetTick \/ AutoBlock

SpecTasks == Init /\ [][NextTasks]_vars

(***************************************************************************)
(* The two tasks as workers execute them: nothing in the tasks keeps a     *)
(* second instance from starting while one is running, so their database   *)
(* statements interleave.  A step is one statement: the evaluation of the  *)
(* query of a pass (when its loop starts), one get_or_create with the      *)
(* update that follows it (one transaction), the DELETE of the sweep, the  *)
(* exists() of the auto-blocker, its create().                             *)
(***************************************************************************)
\* A detector instance starts: it reads the configuration and the clock and
\* evaluates the query of the high-traffic pass.
JobStart(j) ==
    /\ jobs[j].pc = "idle"
    /\ LET threshold == get_config(config, "high_traffic_threshold",
                                   DEFAULT_HIGH_TRAFFIC_THRESHOLD)
           period == get_config(config, "detection_period_minutes",
                                DEFAULT_DETECTION_PERIOD_MINUTES)
       IN jobs' = [jobs EXCEPT ![j] =
                     [pc |-> "high", time_threshold |-> now - period,
                      groups |-> GroupsByIp(requestLog,
                                            WindowRows(requestLog, now - period,
                                                       {}, TRUE),
                                            threshold, suspicious)]]
    /\ UNCHANGED <<now, cache, geoCache, lookups, blocked, requestLog,
                   suspicious, config, det, hist, obs>>

\* One turn of the loop of a pass, for any one of the groups left.
JobUpsert(j) ==
    /\ jobs[j].pc \in {"high", "sensitive", "auth"}
    /\ \E g \in jobs[j].groups :
          /\ suspicious' =
                IF jobs[j].pc = "high"
                THEN UpsertOverwrite(suspicious, g.ip_address, HIGH_TRAFFIC,
                                     g.count, now)
                ELSE IF jobs[j].pc = "sensitive"
                THEN UpsertAccumulate(suspicious, g.ip_address, g.path,
                                      g.count, now)
                ELSE UpsertOverwrite(suspicious, g.ip_address,
                                     MULTIPLE_FAILURES, g.count, now)
          /\ jobs' = [jobs EXCEPT ![j].groups = @ \ {g}]
    /\ UNCHANGED <<now, cache, geoCache, lookups, blocked, requestLog, config,
                   det, hist, obs>>

\* The loop of a pass is over: the query of the next pass is evaluated, or,
\* after the last pass, the sweep deletes and the instance ends.
JobAdvance(j) ==
    /\ jobs[j].pc \in {"high", "sensitive", "auth"}
    /\ jobs[j].groups = {}
    /\ IF jobs[j].pc = "high"
       THEN /\ jobs' = [jobs EXCEPT ![j].pc = "sensitive",
                           ![j].groups =
                               GroupsByIpPath(requestLog,
                                              WindowRows(requestLog,
                                                         jobs[j].time_threshold,
                                                         sensitive_paths, FALSE),
                                              suspicious)]
            /\ UNCHANGED suspicious
       ELSE IF jobs[j].pc = "sensitive"
       THEN /\ jobs' = [jobs EXCEPT ![j].pc = "auth",
                           ![j].groups =
                               GroupsByIp(requestLog,
                                          WindowRows(requestLog,
                                                     jobs[j].time_threshold,
                                                     login_paths, FALSE),
                                          AUTH_ATTEMPT_THRESHOLD, suspicious)]
            /\ UNCHANGED suspicious
       ELSE /\ jobs' = [jobs EXCEPT ![j] = JobIdle]
            /\ suspicious' = cleanup_old_suspicious_ips(suspicious, now)
    /\ UNCHANGED <<now, cache, geoCache, lookups, blocked, requestLog, config,
                   det, hist, obs>>

\* An auto-blocker instance starts: configuration and query.  (With an empty
\* result the task ends at once, having written nothing.)
AutoJobStart(k) ==
    /\ jobs[k].pc = "idle"
    /\ LET threshold == get_config(config, "auto_block_threshold",
                                   DEFAULT_AUTO_BLOCK_THRESHOLD)
           groups == FrequentSuspicious(suspicious, threshold)
       IN /\ groups # {}
          /\ jobs' = [jobs EXCEPT ![k] = [pc |-> "check", groups |-> groups]]
    /\ UNCHANGED <<now, cache, geoCache, lookups, blocked, requestLog,
                   suspicious, config, det, hist, obs>>

\* filter(ip_address=ip).exists() for the next address of the result.
AutoJobCheck(k) ==
    /\ jobs[k].pc = "check"
    /\ \E g \in jobs[k].groups :
          jobs' = [jobs EXCEPT ![k] =
                     IF is_ip_blocked(blocked, g.ip_address)
                     THEN IF jobs[k].groups = {g} THEN JobIdle
                          ELSE [pc |-> "check", groups |-> jobs[k].groups \ {g}]
                     ELSE [pc |-> "create", groups |-> jobs[k].groups \ {g},
                           cur |-> g]]
    /\ UNCHANGED <<now, cache, geoCache, lookups, blocked, requestLog,
                   suspicious, config, det, hist, obs>>

\* BlockedIP.objects.create(...): an IntegrityError ends the task.
AutoJobCreate(k) ==
    /\ jobs[k].pc = "create"
    /\ LET c == BlockedIP_create(blocked, jobs[k].cur.ip_address,
                                 Reason("auto", jobs[k].cur.suspicion_count), now)
       IN /\ blocked' = c.rows
          /\ jobs' = [jobs EXCEPT ![k] =
                        IF c.error \/ jobs[k].groups = {} THEN JobIdle
                        ELSE [pc |-> "check", groups |-> jobs[k].groups]]
    /\ UNCHANGED <<now, cache, geoCache, lookups, requestLog, suspicious,
                   config, det, hist, obs>>

ConcRequests == {<<Ip10, "/admin/">>, <<Ip10, "/.env">>}

ConcRequest ==
    /\ Len(requestLog) < MaxDetLog
    /\ \E q \in ConcRequests :
        Request([xff |-> <<>>, remote |-> q[1], path |-> q[2], view |-> "other"],
                [kind |-> "exception", v |-> "-"],
                [kind |-> "exception", country |-> None], FALSE)

ConcSetConfig ==
    \/ \E v \in DetThresholds : SetConfig("high_traffic_threshold", v)
    \/ SetConfig("auto_block_threshold", 1)

ConcCli == handle(<<Ip10>>, "abuse", 0)

ConcStart == \E j \in DetJobs : JobStart(j)
ConcUpsert == \E j \in DetJobs : JobUpsert(j)
ConcAdvance == \E j \in DetJobs : JobAdvance(j)
ConcAutoStart == \E k \in AutoJobs : AutoJobStart(k)
ConcAutoCheck == \E k \in AutoJobs : AutoJobCheck(k)
ConcAutoCreate == \E k \in AutoJobs : AutoJobCreate(k)

NextConc ==
    \/ ConcStart \/ ConcUpsert \/ ConcAdvance
    \/ ConcAutoStart \/ ConcAutoCheck \/ ConcAutoCreate
    \/ ConcRequest \/ ConcSetConfig \/ ConcCli

SpecConc == Init /\ [][NextConc]_vars

(***************************************************************************)
(* A detector run in which a statement of the database fails.  The upsert  *)
(* of a group is one transaction.atomic() block: an exception inside it    *)
(* rolls back what the block wrote and leaves the loop, the pass and the   *)
(* try of detect_suspicious_ips, whose handler logs it and raises it       *)
(* again.                                                                  *)
(***************************************************************************)
\* A variant: a handler that logs and lets the run go on with the next pass.
except_log_continue(job) ==
    [job |-> [job EXCEPT !.groups = {}], logged |-> TRUE, raised |-> FALSE]

\* except Exception as e: logger.error(...); raise
except_log_raise(job) ==
    [job |-> JobIdle, logged |-> TRUE, raised |-> TRUE]

\* with transaction.atomic(): the rows after the block, given the rows
\* before it, the rows its statements wrote and whether one of them raised.
transaction_atomic(before, written, failed) ==
    IF failed THEN before ELSE written

\* The upsert of one of the groups left raises: in get_or_create, or, for an
\* address that has a row, in the save() after it.
JobFail(j) ==
    /\ jobs[j].pc \in {"high", "sensitive", "auth"}
    /\ \E g \in jobs[j].groups, stmt \in {"get_or_create", "save"} :
          /\ stmt = "save" => SuspiciousRows(suspicious, g.ip_address) # {}
          /\ LET h == except_log_raise(jobs[j]) IN
             /\ suspicious' = transaction_atomic(suspicious, suspicious, TRUE)
             /\ jobs' = [jobs EXCEPT ![j] = h.job]
             /\ obs' = [op |-> "detect_error", job |-> j, pass |-> jobs[j].pc,
                        group |-> g, left |-> jobs[j].groups, stmt |-> stmt,
                        logged |-> h.logged, raised |-> h.raised]
    /\ UNCHANGED <<now, cache, geoCache, lookups, blocked, requestLog, config,
                   det, hist>>

\* One instance of the task, with requests and the operator's threshold.
NextAbort ==
    \/ JobStart("d1") \/ JobUpsert("d1") \/ JobAdvance("d1") \/ JobFail("d1")
    \/ ConcRequest \/ DetSetConfig

SpecAbort == Init /\ [][NextAbort]_vars

(***************************************************************************)
(* C1.  When every provider fails for a non-private address, resolve       *)
(* returns the all-null attributes and leaves no entry for the address in  *)
(* the ephemeral tier and no change in the durable tier, so the next       *)
(* resolve of the address calls the providers again.                       *)
(***************************************************************************)
FailedLookupStep ==
    GeoResolve /\ obs'.source = "fetch" /\ ~obs'.ok

C1_FailedLookupNotCached ==
    [][FailedLookupStep =>
          /\ obs'.data = NullData
          /\ ~CacheLive(cache', obs'.ip, now')
          /\ geoCache' = geoCache]_vars

\* The same, seen from the next resolve: a resolve right after a failed lookup
\* of the same address calls the providers.
C1_FailedLookupRetried ==
    [][(/\ obs.op = "resolve" /\ obs.source = "fetch" /\ ~obs.ok
        /\ GeoResolve /\ obs'.ip = obs.ip) => obs'.calls > 0]_vars

(***************************************************************************)
(* C2.  For every address in 10.0.0.0/8, 172.16.0.0/12, 192.168.0.0/16,    *)
(* 127.0.0.1 and ::1, resolve returns the all-null attributes, calls no    *)
(* provider and writes to neither cache tier.                              *)
(***************************************************************************)
InPrivateRanges(ip) ==
    \/ Len(ip) = 4 /\ ip[1] = 10
    \/ Len(ip) = 4 /\ ip[1] = 172 /\ ip[2] \in 16..31
    \/ Len(ip) = 4 /\ ip[1] = 192 /\ ip[2] = 168
    \/ ip = IpLoopback
    \/ ip = IpLoopback6

C2_PrivateNeverResolved ==
    [][(RangeResolve /\ InPrivateRanges(obs'.ip)) =>
          /\ obs'.data = NullData
          /\ obs'.calls = 0
          /\ cache' = cache
          /\ geoCache' = geoCache]_vars

(***************************************************************************)
(* C3.  A resolve answers from a cache tier only attributes whose provider *)
(* lookup is at most 24 hours old.                                         *)
(***************************************************************************)
C3_NoStaleEntryServed ==
    (obs.op = "resolve" /\ obs.source \in {"cache", "db"} /\ obs.data # NullData)
        => obs.at - obs.origin <= ExpiryAge

\* The same, from the durable row: once the row of an address is older than
\* 24 hours, a resolve of the address calls a provider.
C3_ExpiredRowRefetched ==
    [][\A ip \in GeoIPs :
          (/\ ~is_private_ip(ip) /\ geoCache[ip].present
           /\ is_expired(geoCache[ip], now)
           /\ GeoResolve /\ obs'.ip = ip) => obs'.calls > 0]_vars

WellFormed(ip) ==
    \/ Len(ip) = 4 /\ \A i \in 1..4 : ip[i] >= 0 /\ ip[i] < 256
    \/ Len(ip) = 8 /\ \A i \in 1..8 : ip[i] >= 0 /\ ip[i] < 65536

InBlocklist(b, ip) == \E r \in b : r.ip_address = ip

Count(msgs, kinds) == Cardinality({i \in 1..Len(msgs) : msgs[i] \in kinds})

\* Position i of the invocation is a completed block call of a valid address.
BlockCall(o, i) == WellFormed(o.ips[i]) /\ o.messages[i] # "error"

FirstCall(b, o, i) ==
    /\ ~InBlocklist(b, o.ips[i])
    /\ \A j \in 1..(i - 1) : ~(o.ips[j] = o.ips[i] /\ BlockCall(o, j))

\* A step of the command: it leaves its report in obs.  (An invocation that
\* repeats the previous report changes nothing at all.)
HandleStep == obs'.op = "block_ip" /\ obs' # obs

C5_BlockIdempotent ==
    [][HandleStep =>
          /\ \A r \in blocked : r \in blocked'
          /\ \A i \in 1..Len(obs'.ips) :
                BlockCall(obs', i) =>
                    /\ Cardinality(BlockedRows(blocked', obs'.ips[i])) = 1
                    /\ IF FirstCall(blocked, obs', i)
                       THEN /\ obs'.messages[i] = "blocked"
                            /\ [ip_address |-> obs'.ips[i], created_at |-> now,
                                reason |-> Reason(obs'.reason, 0)] \in blocked'
                       ELSE obs'.messages[i] = "already"
          /\ obs'.error_count = Count(obs'.messages, {"invalid", "error"})]_vars

\* An invocation that names one address twice, after an invocation with another
\* reason blocked it at an earlier time.
C5_Witness ==
    /\ obs.op = "block_ip" /\ Len(obs.ips) = 2
    /\ obs.ips[1] = IpPublic /\ obs.ips[2] = IpPublic
    /\ obs.messages = <<"already", "already">>
    /\ obs.error_count = 0
    /\ \E r \in blocked : /\ r.ip_address = IpPublic /\ r.created_at < now
                          /\ r.reason # Reason(obs.reason, 0)

(***************************************************************************)
(* C6.  An address that does not parse is never inserted: its position is  *)
(* reported "invalid" and counted as an error, the rows do not change for  *)
(* it, the addresses after it are still processed, and every address given *)
(* gets exactly one outcome.                                               *)
(***************************************************************************)
C6_NoInvalidRow == \A r \in blocked : WellFormed(r.ip_address)

C6_InvalidReported ==
    /\ C6_NoInvalidRow
    /\ obs.op = "block_ip" =>
          /\ Len(obs.messages) = Len(obs.ips)
          /\ \A i \in 1..Len(obs.ips) :
                /\ ~WellFormed(obs.ips[i]) <=> obs.messages[i] = "invalid"
                /\ obs.messages[i] \in {"blocked", "already"}
                      => InBlocklist(blocked, obs.ips[i])
          /\ obs.success_count = Count(obs.messages, {"blocked"})
          /\ obs.error_count = Count(obs.messages, {"invalid", "error"})
          /\ obs.success_count + Count(obs.messages, {"already"}) + obs.error_count
                = Len(obs.ips)

\* An invalid address first, then a valid one that is blocked all the same.
C6_Witness ==
    /\ obs.op = "block_ip" /\ Len(obs.ips) = 2
    /\ obs.ips[1] = IpBadOctet /\ obs.ips[2] = IpPublic
    /\ obs.messages = <<"invalid", "blocked">>
    /\ obs.success_count = 1 /\ obs.error_count = 1
    /\ InBlocklist(blocked, IpPublic)

(***************************************************************************)
(* C7.  A request whose client address is in the blocklist is answered 403 *)
(* with the address in the message, and nothing else happens: no provider  *)
(* call, no write to either cache tier, no RequestLog row, no call of the  *)
(* view.                                                                   *)
(***************************************************************************)
\* A step of the pipeline: it leaves its response in obs.  (A request that
\* repeats the previous response and appends no row changes nothing at all.)
RequestStep == obs'.op = "request" /\ (obs' # obs \/ requestLog' # requestLog)

C7_BlockedRequestRejected ==
    [][(RequestStep /\ InBlocklist(blocked, obs'.ip)) =>
          /\ obs'.status = 403
          /\ obs'.denied = obs'.ip
          /\ obs'.calls = 0
          /\ ~obs'.handler
          /\ requestLog' = requestLog
          /\ cache' = cache
          /\ geoCache' = geoCache
          /\ blocked' = blocked]_vars

\* A public address that was served and logged before it was blocked, refused.
C7_Witness ==
    /\ obs.op = "request" /\ obs.status = 403 /\ obs.ip = IpPublic
    /\ InBlocklist(blocked, IpPublic)
    /\ \E i \in 1..Len(requestLog) : requestLog[i].ip_address = IpPublic
    /\ cache[IpPublic].present

(***************************************************************************)
(* C8.  Every request from an address that is not blocked appends exactly  *)
(* one RequestLog row, a successful login included, and no step changes or *)
(* removes a row already in the log.                                       *)
(***************************************************************************)
LogKept ==
    /\ Len(requestLog') >= Len(requestLog)
    /\ \A i \in 1..Len(requestLog) : requestLog'[i] = requestLog[i]

C8_OneRowPerRequest ==
    [][/\ LogKept
       /\ (RequestStep /\ ~InBlocklist(blocked, obs'.ip)) =>
              Len(requestLog') = Len(requestLog) + 1]_vars

(***************************************************************************)
(* C9.  The high-traffic pass: every address whose rows of the log with a  *)
(* timestamp at or after the start of the window number at least the       *)
(* threshold (both bounds inclusive), and which has no active suspicion    *)
(* record, has after the pass exactly one record, with reason              *)
(* HIGH_TRAFFIC, that number as its count (written over any earlier value) *)
(* and active; the records of an address whose number is below the         *)
(* threshold are as they were before the pass.                             *)
(***************************************************************************)
WindowStart ==
    now - (IF config["detection_period_minutes"] = NoConfig
           THEN DEFAULT_DETECTION_PERIOD_MINUTES
           ELSE config["detection_period_minutes"])

HighTrafficThreshold ==
    IF config["high_traffic_threshold"] = NoConfig
    THEN DEFAULT_HIGH_TRAFFIC_THRESHOLD
    ELSE config["high_traffic_threshold"]

InWindowCount(ip) ==
    Cardinality({i \in 1..Len(requestLog) :
                    /\ requestLog[i].ip_address = ip
                    /\ requestLog[i].timestamp >= WindowStart})

RecordsOf(susp, ip) == {r \in susp : r.ip_address = ip}

HasActiveRecord(ip) == \E r \in RecordsOf(suspicious, ip) : r.is_active

\* The step of a run that executes the high-traffic pass.
HighTrafficStep == det.pc = "idle" /\ det'.pc = "sensitive"

C9_HighTrafficPass ==
    [][HighTrafficStep =>
          \A ip \in DetIPs :
             /\ (InWindowCount(ip) >= HighTrafficThreshold /\ ~HasActiveRecord(ip))
                   => \E r \in suspicious' :
                         /\ RecordsOf(suspicious', ip) = {r}
                         /\ r.reason = HIGH_TRAFFIC
                         /\ r.request_count = InWindowCount(ip)
                         /\ r.is_active
             /\ InWindowCount(ip) < HighTrafficThreshold
                   => RecordsOf(suspicious', ip) = RecordsOf(suspicious, ip)]_vars

\* The pass has just written over the record an earlier run left for an
\* address (since deactivated) whose rows, all at the very start of the
\* window, number exactly the threshold.
C9_Witness ==
    /\ det.pc = "sensitive"
    /\ HighTrafficThreshold = 2
    /\ \E r \in suspicious :
          /\ r.reason = HIGH_TRAFFIC /\ r.is_active
          /\ r.request_count = 2
          /\ r.first_detected < r.last_detected /\ r.last_detected = now
          /\ \A i \in 1..Len(requestLog) :
                requestLog[i].ip_address = r.ip_address
                    => requestLog[i].timestamp = det.time_threshold

(***************************************************************************)
(* C10.  Detector determinism: when detect_suspicious_ips runs twice in    *)
(* succession on the same rows of the log in the window, with no change    *)
(* made to the suspicion records in between, the records after the second  *)
(* run are those after the first (same addresses, reason, count, sensitive *)
(* paths and active flag), none new and none twice.  As claimed: the same  *)
(* set exactly.                                                            *)
(***************************************************************************)
Proj(susp) ==
    {[ip_address |-> r.ip_address, reason |-> r.reason,
      request_count |-> r.request_count,
      sensitive_paths |-> r.sensitive_paths, is_active |-> r.is_active] :
        r \in susp}

\* The step that ends the second run (or a later one) of such a succession.
SecondRunEnds == det.pc = "cleanup" /\ det'.pc = "idle" /\ hist'.stable = 2

C10_SameSetAfterSecondRun ==
    [][SecondRunEnds => Proj(suspicious') = Proj(hist.susp)]_vars

\* C10 as amended: the same set, less the inactive records that have passed
\* the retention age by the time of the second run, which its sweep deletes.
PastRetention(r, t) == ~r.is_active /\ r.last_detected < t - CleanupAge

C10_SameSetLessSwept ==
    [][SecondRunEnds =>
          /\ Proj(suspicious') = Proj({r \in hist.susp : ~PastRetention(r, now)})
          /\ \A r \in suspicious' : r \in hist.susp
          /\ \A ip \in DetIPs : Cardinality(RecordsOf(suspicious', ip)) <= 1]_vars

\* Two runs in succession have left the one record of an address that asked
\* for two sensitive paths, its count that of the first run.
C10_Witness ==
    /\ det.pc = "idle" /\ hist.stable = 2
    /\ \E r \in suspicious :
          /\ r.reason = SENSITIVE_ACCESS /\ r.is_active
          /\ r.sensitive_paths = {"/admin/", "/.env"}
          /\ r.request_count = 2
    /\ Proj(suspicious) = Proj(hist.susp)

(***************************************************************************)
(* C11.  When the detector runs again, with no new log entries, for an     *)
(* address that an earlier run flagged HIGH_TRAFFIC and that still meets   *)
(* the threshold in the window, the count of the record stays the same and *)
(* its last_detected becomes the time of the second run.                   *)
(***************************************************************************)
\* The step that ends a run.
RunEnds == det.pc = "cleanup" /\ det'.pc = "idle"

C11_RerunUpdatesLastDetected ==
    [][(RunEnds /\ hist'.stable = 2) =>
          \A r \in hist.susp :
             (/\ r.reason = HIGH_TRAFFIC /\ r.is_active
              /\ InWindowCount(r.ip_address) >= HighTrafficThreshold)
                => \E q \in suspicious' :
                      /\ q.ip_address = r.ip_address
                      /\ q.request_count = r.request_count
                      /\ q.last_detected = now]_vars

(***************************************************************************)
(* C12.  Sensitive-path accumulation across runs: an address asks for      *)
(* /admin/ once and a run records it; it then asks for /.env once and a    *)
(* second run executes while the record is still active and both rows are  *)
(* in the window: the record then has both paths and the count 2.          *)
(***************************************************************************)
PathRows(ip, path) ==
    {i \in 1..Len(requestLog) :
        requestLog[i].ip_address = ip /\ requestLog[i].path = path}

\* The first run recorded the one /admin/ row of ip, the /.env row came
\* after it, and both are in the window of the run now in progress.
AdminThenEnv(ip) ==
    /\ \E r \in suspicious :
          /\ r.ip_address = ip /\ r.is_active
          /\ r.reason = SENSITIVE_ACCESS
          /\ r.sensitive_paths = {"/admin/"} /\ r.request_count = 1
          /\ \A i \in PathRows(ip, "/admin/") : requestLog[i].timestamp <= r.last_detected
    /\ Cardinality(PathRows(ip, "/admin/")) = 1
    /\ Cardinality(PathRows(ip, "/.env")) = 1
    /\ \A i \in PathRows(ip, "/admin/"), j \in PathRows(ip, "/.env") : i < j
    /\ \A i \in PathRows(ip, "/admin/") \cup PathRows(ip, "/.env") :
          requestLog[i].timestamp >= det.time_threshold

\* The step of a run that executes the sensitive-path pass.
SensitiveStep == det.pc = "sensitive" /\ det'.pc = "auth"

C12_SensitiveAccumulatesAcrossRuns ==
    [][\A ip \in DetIPs :
          (SensitiveStep /\ AdminThenEnv(ip))
             => \E q \in suspicious' :
                   /\ q.ip_address = ip
                   /\ q.sensitive_paths = {"/admin/", "/.env"}
                   /\ q.request_count = 2]_vars

(***************************************************************************)
(* C13.  The retention sweep deletes exactly the suspicion records that    *)
(* are inactive and were last detected more than 7 days ago: an inactive   *)
(* record of that age or less is kept, and an active record is kept        *)
(* however old it is.                                                      *)
(***************************************************************************)
Age(r) == now - r.last_detected

SevenDays == 7 * 24 * 60

C13_SweepDeletesExactlyOldInactive ==
    [][RunEnds =>
          /\ \A r \in suspicious :
                r \in suspicious' <=> (r.is_active \/ Age(r) <= SevenDays)
          /\ \A r \in suspicious' : r \in suspicious]_vars

\* A second run has deleted an inactive record that the run before it kept
\* (it was then exactly 7 days old).
C13_Witness ==
    /\ det.pc = "idle" /\ hist.stable = 2
    /\ \E r \in hist.susp :
          /\ ~r.is_active /\ r \notin suspicious /\ Age(r) > SevenDays

\* A sweep has kept an active record older than 7 days.
C13_ActiveKept ==
    /\ det.pc = "idle" /\ hist.stable > 0
    /\ \E r \in suspicious : r.is_active /\ Age(r) > SevenDays

(***************************************************************************)
(* C14.  Auto-block: after a run of auto_block_suspicious_ips every        *)
(* address whose number of active suspicion records is at least the        *)
(* threshold is in the blocklist; the run creates exactly one row, its     *)
(* reason citing the count, for each such address not yet blocked, leaves  *)
(* the row of an address already blocked as it is, and a run repeated on   *)
(* unchanged suspicion records creates no row.                             *)
(***************************************************************************)
ActiveCount(ip) ==
    Cardinality({r \in suspicious : r.ip_address = ip /\ r.is_active})

AutoBlockThreshold ==
    IF config["auto_block_threshold"] = NoConfig
    THEN 3
    ELSE config["auto_block_threshold"]

C14_AutoBlock ==
    [][AutoBlock =>
          /\ \A ip \in DetIPs :
                /\ ActiveCount(ip) >= AutoBlockThreshold
                      => InBlocklist(blocked', ip)
                /\ (ActiveCount(ip) >= AutoBlockThreshold /\ ~InBlocklist(blocked, ip))
                      => \E r \in blocked' :
                            /\ {q \in blocked' : q.ip_address = ip} = {r}
                            /\ r.reason = [text |-> "auto", n |-> ActiveCount(ip)]
                            /\ r.created_at = now
                /\ (ActiveCount(ip) < AutoBlockThreshold \/ InBlocklist(blocked, ip))
                      => {q \in blocked' : q.ip_address = ip}
                            = {q \in blocked : q.ip_address = ip}
          /\ (/\ obs.op = "auto_block" /\ obs.seen = suspicious
              /\ obs.threshold = AutoBlockThreshold)
                => blocked' = blocked]_vars

\* A run, repeated on the suspicion records of the run that blocked an
\* address, has created nothing.
C14_Witness ==
    /\ obs.op = "auto_block" /\ obs.blocked_count = 0
    /\ obs.seen = suspicious /\ obs.threshold = AutoBlockThreshold
    /\ \E r \in blocked :
          /\ r.reason = [text |-> "auto", n |-> 1]
          /\ ActiveCount(r.ip_address) >= obs.threshold

(***************************************************************************)
(* C15.  With an auto-block threshold of 2 or more (the default 3          *)
(* included), no sequence of requests, detector runs and auto-blocker runs *)
(* makes the auto-blocker add an address to the blocklist: the number of   *)
(* active suspicion records of an address is always 0 or 1.                *)
(***************************************************************************)
C15_AutoBlockNeverFires ==
    [][/\ (AutoBlock /\ AutoBlockThreshold >= 2) => blocked' = blocked
       /\ \A ip \in DetIPs : ActiveCount(ip) \in {0, 1}]_vars

\* A run with the default threshold has seen an active record and has
\* blocked nothing.
C15_Witness ==
    /\ obs.op = "auto_block" /\ obs.threshold = 3
    /\ obs.blocked_count = 0 /\ blocked = {}
    /\ \E r \in obs.seen : r.is_active

(***************************************************************************)
(* C17.  The blocklist only grows: no resolver call, request, detector     *)
(* run, auto-blocker run or command invocation deletes or changes a row of *)
(* the blocklist, and only the auto-blocker and the command add one (a     *)
(* detector run leaves the blocklist as it is).                            *)
(***************************************************************************)
C17_BlocklistOnlyGrows ==
    [][/\ \A r \in blocked : r \in blocked'
       /\ blocked' # blocked => (AutoBlock \/ AutoCli)
       /\ det' # det => blocked' = blocked]_vars

\* Both writers have added a row, and the command has been run again for one
\* of the addresses since.
C17_Witness ==
    /\ \E r \in blocked : r.reason.text = "auto"
    /\ \E r \in blocked : r.reason.text = "abuse"
    /\ obs.op = "block_ip" /\ obs.messages = <<"already">>

(***************************************************************************)
(* C16.  In every reachable state there is at most one suspicion record    *)
(* and at most one blocklist row per address, whatever the interleaving of *)
(* detector passes, auto-blocker runs and command invocations and however  *)
(* many distinct signals fired for the address.                            *)
(***************************************************************************)
C16_OneRowPerAddress ==
    /\ \A r1 \in suspicious, r2 \in suspicious :
          r1.ip_address = r2.ip_address => r1 = r2
    /\ \A b1 \in blocked, b2 \in blocked :
          b1.ip_address = b2.ip_address => b1 = b2

\* An auto-blocker instance is about to create the row of an address that
\* has been blocked since its exists(), and the record of the address has
\* been written by the sensitive-path pass and then by the high-traffic pass.
C16_Witness ==
    /\ \E k \in AutoJobs :
          /\ jobs[k].pc = "create"
          /\ \E b \in blocked : b.ip_address = jobs[k].cur.ip_address
    /\ \E r \in suspicious : r.reason = HIGH_TRAFFIC /\ r.sensitive_paths # {}

(***************************************************************************)
(* C18.  Single-flight jobs: at most one detector run and at most one      *)
(* auto-blocker run is active at any time (a run that would start while    *)
(* the previous one is active is skipped or queued), so that no            *)
(* interleaving of two detector runs counts rows twice into request_count  *)
(* or races upserts on one address.                                        *)
(***************************************************************************)
SensitiveRowsOf(ip) ==
    {i \in 1..Len(requestLog) :
        requestLog[i].ip_address = ip /\ requestLog[i].path \in sensitive_paths}

\* No record counts more sensitive-path rows than the log has for its
\* address (no record is ever deactivated here).
C18_NoDoubleCount ==
    \A r \in suspicious :
        r.reason = SENSITIVE_ACCESS
            => r.request_count <= Cardinality(SensitiveRowsOf(r.ip_address))

C18_AtMostOneRunActive ==
    /\ Cardinality({j \in DetJobs : jobs[j].pc # "idle"}) <= 1
    /\ Cardinality({k \in AutoJobs : jobs[k].pc # "idle"}) <= 1

(***************************************************************************)
(* C19.  A failure of the durable tier never surfaces from resolve: with   *)
(* the read failing (and no live ephemeral entry) resolve goes on to a     *)
(* provider lookup; with the write failing resolve still returns the       *)
(* looked-up attributes and the ephemeral tier holds them; in every case   *)
(* resolve returns an attribute set and raises nothing.                    *)
(***************************************************************************)
AttributeNames == DOMAIN NullData

C19_DurableFailureSwallowed ==
    [][\A prim \in GeoPrimary \cup {[kind |-> "success", v |-> "B"]},
          fb \in GeoFallback, dbRead \in BOOLEAN, dbWrite \in BOOLEAN :
          ResolveOp(IpPublic, prim, fb, dbRead, dbWrite)
            => /\ ~obs'.raised
               /\ DOMAIN obs'.data = AttributeNames
               /\ (~dbRead /\ ~CacheLive(cache, IpPublic, now))
                     => /\ obs'.source = "fetch"
                        /\ obs'.calls >= 1
                        /\ obs'.data = fetch_geolocation_data(prim, fb).data
               /\ (~dbWrite /\ obs'.source = "fetch")
                     => /\ obs'.data = fetch_geolocation_data(prim, fb).data
                        /\ CacheLive(cache', IpPublic, now)
                        /\ cache'[IpPublic].data = obs'.data
                        /\ geoCache' = geoCache]_vars

\* A provider answer returned and held by the ephemeral tier while the
\* durable tier has no row for the address: its write failed.
C19_Witness ==
    /\ obs.op = "resolve" /\ obs.ip = IpPublic /\ obs.source = "fetch"
    /\ obs.ok /\ ~obs.raised /\ obs.at = now
    /\ obs.data # NullData
    /\ ~geoCache[IpPublic].present
    /\ CacheLive(cache, IpPublic, now)
    /\ cache[IpPublic].data = obs.data

(***************************************************************************)
(* C20.  Provider chain.  A lookup asks ip-api.com first; when it answers  *)
(* 200 with status success its attributes are returned and country.is is   *)
(* not called (one call); when it raises, times out, answers non-200 or    *)
(* answers without status success, country.is is called, and if it        *)
(* answers, resolve returns its country code with every other attribute    *)
(* null.                                                                   *)
(***************************************************************************)
PrimaryFailures == {"exception", "http_error", "status_fail"}

C20_ProviderChain ==
    [][\A prim \in PrimaryOutcomes({"A"}), fb \in FallbackOutcomes :
          (ResolveOp(IpPublic, prim, fb, TRUE, TRUE) /\ obs'.source = "fetch")
            => /\ prim.kind = "success"
                     => /\ obs'.calls = 1
                        /\ obs'.data = PrimaryData(prim.v)
               /\ (prim.kind \in PrimaryFailures /\ fb.kind = "ok")
                     => /\ obs'.calls = 2
                        /\ obs'.data.country = fb.country
                        /\ \A a \in AttributeNames \ {"country"} :
                               obs'.data[a] = None]_vars

\* A lookup answered by the fallback after the primary failed.
C20_Witness ==
    /\ obs.op = "resolve" /\ obs.ip = IpPublic /\ obs.source = "fetch"
    /\ obs.calls = 2 /\ obs.ok
    /\ obs.data.country = "KE"
    /\ \A a \in AttributeNames \ {"country"} : obs.data[a] = None
    /\ CacheLive(cache, IpPublic, now)
    /\ cache[IpPublic].data = obs.data

(***************************************************************************)
(* C23.  Auth-failure pass: every address with at least 5 requests to the  *)
(* login paths in the window and no active record when the pass evaluates  *)
(* its query is left with one record of reason MULTIPLE_FAILURES, its      *)
(* count the number of those requests, active; the record of an address    *)
(* with fewer than 5 such requests is not touched by the pass.             *)
(***************************************************************************)
LoginCount(ip) ==
    Cardinality({i \in 1..Len(requestLog) :
                    /\ requestLog[i].ip_address = ip
                    /\ requestLog[i].path \in {"/api/login/", "/login/",
                                                "/admin/login/"}
                    /\ requestLog[i].timestamp >= WindowStart})

\* The step of a run that executes the auth-failure pass.
AuthStep == det.pc = "auth" /\ det'.pc = "cleanup"

C23_AuthFailurePass ==
    [][AuthStep =>
          \A ip \in DetIPs :
             /\ (LoginCount(ip) >= 5 /\ ~HasActiveRecord(ip))
                   => /\ Cardinality(RecordsOf(suspicious', ip)) = 1
                      /\ \A q \in RecordsOf(suspicious', ip) :
                            /\ q.reason = MULTIPLE_FAILURES
                            /\ q.request_count = LoginCount(ip)
                            /\ q.is_active
                            /\ q.last_detected = now
             /\ LoginCount(ip) < 5
                   => RecordsOf(suspicious', ip) = RecordsOf(suspicious, ip)]_vars

\* The pass has recorded an address for its five login requests, all of
\* which came in after the sensitive-path pass of the run.
C23_Witness ==
    /\ det.pc = "cleanup" /\ ~det.clean
    /\ \E r \in suspicious :
          /\ r.reason = MULTIPLE_FAILURES /\ r.is_active
          /\ r.request_count = 5
          /\ LoginCount(r.ip_address) = 5
          /\ r.last_detected = now

(***************************************************************************)
(* C26.  In a run during which no request is logged, no record is created  *)
(* with or changed to the reason MULTIPLE_FAILURES: the login paths are    *)
(* sensitive paths too, so every address with at least 5 login requests in *)
(* the window has an active record when the auth-failure pass evaluates    *)
(* its query.                                                              *)
(***************************************************************************)
PassStep ==
    \/ det.pc = "idle" /\ det'.pc = "sensitive"
    \/ det.pc = "sensitive" /\ det'.pc = "auth"
    \/ det.pc = "auth" /\ det'.pc = "cleanup"
    \/ det.pc = "cleanup" /\ det'.pc = "idle"

C26_NoMultipleFailuresInQuietRun ==
    [][(PassStep /\ det'.clean) =>
          /\ \A r \in suspicious' : r.reason = MULTIPLE_FAILURES => r \in suspicious
          /\ AuthStep =>
                \A ip \in DetIPs : LoginCount(ip) >= 5 => HasActiveRecord(ip)]_vars

\* The auth-failure pass of a quiet run has gone over an address with five
\* login requests in the window, which the sensitive-path pass had recorded.
C26_Witness ==
    /\ det.pc = "cleanup" /\ det.clean
    /\ \E r \in suspicious :
          /\ LoginCount(r.ip_address) >= 5
          /\ r.is_active /\ r.reason = SENSITIVE_ACCESS
          /\ r.last_detected = now

(***************************************************************************)
(* C22.  First pass wins: a pass leaves unchanged every record that is     *)
(* active when it evaluates its query, so an address flagged by the        *)
(* high-traffic pass is not modified by the two passes after it nor by the *)
(* sweep; an address without an active record that meets the high-traffic  *)
(* threshold and also asked for sensitive paths gets, from the first pass  *)
(* of the run, reason HIGH_TRAFFIC and the count of all its requests in    *)
(* the window, and so ends the run with them.                              *)
(***************************************************************************)
SensitiveInWindow(ip) ==
    {i \in 1..Len(requestLog) :
        /\ requestLog[i].ip_address = ip
        /\ requestLog[i].path \in sensitive_paths
        /\ requestLog[i].timestamp >= WindowStart}

TaskStep == PassStep \/ AutoBlock

SensitivePathsInWindow(ip) ==
    {requestLog[i].path : i \in SensitiveInWindow(ip)}

C28_SensitiveRecordMatchesWindow ==
    [][SensitiveStep =>
          \A ip \in DetIPs :
             RecordsOf(suspicious', ip) # RecordsOf(suspicious, ip)
                => \A q \in RecordsOf(suspicious', ip) :
                      /\ q.reason = SENSITIVE_ACCESS
                      /\ q.sensitive_paths = SensitivePathsInWindow(ip)
                      /\ q.request_count = Cardinality(SensitiveInWindow(ip))]_vars

(***************************************************************************)
(* C25.  Under every interleaving of an auto-blocker run with the command  *)
(* (or with a second auto-blocker run) for the same address the duplicate  *)
(* is taken as "already blocked" and not as an error: the address has one  *)
(* BlockedIP row, the create() of the run raises nothing, and the run goes *)
(* on to the other addresses of its result.                                *)
(***************************************************************************)
CreateOf(k) ==
    BlockedIP_create(blocked, jobs[k].cur.ip_address,
                     Reason("auto", jobs[k].cur.suspicion_count), now)

C25_DuplicateIsNotAnError ==
    [][\A k \in AutoJobs :
          AutoJobCreate(k)
            => /\ ~CreateOf(k).error
               /\ Cardinality(BlockedRows(blocked', jobs[k].cur.ip_address)) = 1
               /\ jobs[k].groups # {} => jobs'[k].pc = "check"]_vars

(***************************************************************************)
(* C24.  Partial failure of a detector run: the upsert of an address is    *)
(* atomic (its record gets all the fields of the upsert or is not          *)
(* touched), and when an error aborts the run at an upsert, what the run   *)
(* committed before stays, the failing upsert writes nothing, the run is   *)
(* over (no later pass, no sweep), and the error is logged and raised.     *)
(***************************************************************************)
ReasonOfPass(pc) ==
    IF pc = "high" THEN HIGH_TRAFFIC
    ELSE IF pc = "sensitive" THEN SENSITIVE_ACCESS ELSE MULTIPLE_FAILURES

C24_PartialFailure ==
    [][\A j \in DetJobs :
          /\ JobUpsert(j) =>
                \A ip \in DetIPs :
                   \/ RecordsOf(suspicious', ip) = RecordsOf(suspicious, ip)
                   \/ /\ Cardinality(RecordsOf(suspicious', ip)) = 1
                      /\ \A q \in RecordsOf(suspicious', ip) :
                            /\ q.reason = ReasonOfPass(jobs[j].pc)
                            /\ q.is_active
                            /\ q.last_detected = now
                            /\ q.request_count >= 1
          /\ JobFail(j) =>
                /\ suspicious' = suspicious
                /\ jobs'[j].pc = "idle"
                /\ obs'.logged /\ obs'.raised]_vars

\* A run was aborted at the second upsert of its sensitive-path pass: the
\* record the first one wrote is there, and the run is over.
C24_Witness ==
    /\ obs.op = "detect_error" /\ obs.pass = "sensitive"
    /\ obs.logged /\ obs.raised
    /\ jobs[obs.job].pc = "idle"
    /\ Cardinality(obs.left) = 1
    /\ \E r \in suspicious :
          /\ r.ip_address = obs.group.ip_address
          /\ r.is_active /\ r.reason = SENSITIVE_ACCESS
          /\ r.request_count = 1
          /\ Cardinality(r.sensitive_paths) = 1
          /\ obs.group.path \notin r.sensitive_paths

(***************************************************************************)
(* C21.  The three passes are order-independent: for fixed log,            *)
(* configuration and records, the high-traffic, sensitive-path and         *)
(* auth-failure passes run in any of the six orders leave the same records *)
(* (same reason, count, sensitive paths and active flag per address).  As  *)
(* claimed: on every input.                                                *)
(***************************************************************************)
ResultOf(order) ==
    Proj(RunPasses(order, requestLog, suspicious, WindowStart,
                   HighTrafficThreshold, now))

C21_OrderIndependent ==
    [][OrderRun => \A p \in PassOrders : ResultOf(p) = Proj(suspicious')]_vars

\* C21 as amended: on the inputs where no address qualifies for more than
\* one pass.  (The login paths being sensitive paths, an address that
\* qualifies for the auth-failure pass qualifies for the sensitive-path
\* pass too.)
QualifiesHigh ==
    {ip \in DetIPs : InWindowCount(ip) >= HighTrafficThreshold /\ ~HasActiveRecord(ip)}

QualifiesSensitive ==
    {ip \in DetIPs : SensitiveInWindow(ip) # {} /\ ~HasActiveRecord(ip)}

QualifiesAuth ==
    {ip \in DetIPs : LoginCount(ip) >= 5 /\ ~HasActiveRecord(ip)}

OnePassPerAddress ==
    /\ QualifiesHigh \cap QualifiesSensitive = {}
    /\ QualifiesHigh \cap QualifiesAuth = {}
    /\ QualifiesSensitive \cap QualifiesAuth = {}

C21_OrderIndependentOnePassPerAddress ==
    [][(OrderRun /\ OnePassPerAddress)
          => \A p \in PassOrders : ResultOf(p) = Proj(suspicious')]_vars

\* The passes have run on an empty table and a log for which the
\* high-traffic pass flags one address and the sensitive-path pass another.
C21_Witness ==
    /\ obs.op = "detect_in_order" /\ obs.before = {}
    /\ \E r \in suspicious, q \in suspicious :
          /\ r.ip_address # q.ip_address
          /\ r.reason = HIGH_TRAFFIC /\ r.is_active /\ r.request_count >= 2
          /\ q.reason = SENSITIVE_ACCESS /\ q.is_active
          /\ q.request_count < HighTrafficThreshold

====
